---- MODULE Spec2Model ----
(***************************************************************************)
(* Model of oscope_scpi/keysight.py: the Keysight command layer driving a  *)
(* SCPI oscilloscope.  The object's fields and the instrument's settings   *)
(* are the state; every public method is one action, except _readDVM,      *)
(* whose poll loop is one action per iteration because each iteration      *)
(* takes a fresh reply from the instrument and a fresh look at the clock.  *)
(* Every command sent during a call is appended to log, in order.          *)
(***************************************************************************)
EXTENDS Integers, Sequences, FiniteSets, TLC

VARIABLES
    channel,         \* self.channel, the current-channel field
    instDvmEnabled,  \* instrument: DVM subsystem on/off
    instDvmSource,   \* instrument: reply it gives to DVM:SOURce?
    instMeasSource,  \* instrument: reply it gives to MEASure:SOURce?
    pc,              \* "idle" | "dvmLoop" | "returned" | "raised"
    call,            \* the entry point in progress or last finished, with its arguments
    val,             \* local val of _readDVM
    startTime,       \* local startTime of _readDVM
    now,             \* wall clock, counted from the entry of the call
    log,             \* commands issued by the call, in order
    retval,          \* value returned by the call
    prev,            \* while idle: the call finished last, if the instrument
                     \* has been left alone since (its kind, whether it
                     \* returned, whether it was given a channel)
    _annotationText, \* self._annotationText
    _annotationColor,\* self._annotationColor
    _version         \* self._version, the firmware version, in hundredths

\* The fields of the annotation
annot == <<_annotationText, _annotationColor, _version>>

vars == <<channel, instDvmEnabled, instDvmSource, instMeasSource, pc, call,
          val, startTime, now, log, retval, prev, annot>>

----------------------------------------------------------------------------
(* Bounds of the model *)

\* maxChannel given to the constructor
MaxChannel == 2
\* largest timeout (in clock ticks) a caller passes
MaxTimeout == 1
\* most DVM:CURRent? polls followed in one call
MaxPolls == 2

----------------------------------------------------------------------------
(* Values *)

\* Python's None for the numeric arguments timeout and wait, and for a
\* method that returns nothing
None == -1

\* self.OverRange (+9.9E+37 in the source), on the model's scale of readings
OverRange == 2

\* Readings the instrument can report: below, equal to and above OverRange
Readings == (OverRange - 1) .. (OverRange + 1)

\* str(x) for the small non-negative integers the model uses
NumStr(n) == <<"0", "1", "2", "3", "4", "5", "6", "7", "8", "9">>[n + 1]

\* float(s) of a numeric reply string
float(s) == CHOOSE n \in 0 .. 9 : NumStr(n) = s

\* The reply strings of a numeric query
ReplyStrings == { NumStr(r) : r \in Readings }

\* A channel selector: a scalar string, a list of strings, or None
Scalar(c) == [isList |-> FALSE, items |-> <<c>>]
List(l) == [isList |-> TRUE, items |-> l]
NoneArg == [isList |-> FALSE, items |-> <<>>]

\* A colour argument is a string, or None: no string a caller passes
NoColor == "<None>"

\* `x in lst` for a channel selector x and a Python list of strings lst
InList(x, lst) ==
    /\ ~x.isList
    /\ x.items /= <<>>
    /\ \E i \in 1 .. Len(lst) : lst[i] = x.items[1]

\* Oscilloscope.channelStr: the SCPI name of analog channel number c
channelStr(c) == "CHAN" \o c

\* Oscilloscope._chanNumber: the channel number in a source reply, 0 if none
_chanNumber(src) ==
    IF \E n \in 1 .. 9 : src = "CHAN" \o NumStr(n)
    THEN NumStr(CHOOSE n \in 1 .. 9 : src = "CHAN" \o NumStr(n))
    ELSE "0"

\* Oscilloscope._1OR0: a "1"/"0" reply as a boolean
_1OR0(en) == en = "1"

\* The analog list built one channel too long
chanAnaValidListOffByOne == [x \in 1 .. (MaxChannel + 1) |-> NumStr(x)]

\* line 64: self._chanAnaValidList
_chanAnaValidList == [x \in 1 .. MaxChannel |-> NumStr(x)]

\* line 71: self._chanAllValidList
_chanAllValidList ==
    [x \in 1 .. MaxChannel |-> channelStr(NumStr(x))] \o <<"POD1", "POD2">>

\* Scalar selectors a caller may pass: the analog channels, one number past
\* them, an all-valid-list name of an analog channel and a digital pod
ScalarSelectors ==
    { NumStr(x) : x \in 1 .. (MaxChannel + 1) } \cup {"CHAN1", "POD1"}

\* List selectors a caller may pass
ListSelectors == { <<"1">>, <<"CHAN2", "1", "POD1">> }

ChanArgs ==
    {NoneArg} \cup { Scalar(c) : c \in ScalarSelectors }
              \cup { List(l) : l \in ListSelectors }

Timeouts == {None} \cup (0 .. MaxTimeout)
Waits == {None, 0, 1}

\* Replies the instrument gives to DVM:SOURce?
DvmSources == { channelStr(NumStr(x)) : x \in 1 .. MaxChannel }

\* Replies the instrument gives to MEASure:SOURce?
MeasSources == {"CHAN1", "POD1"}

----------------------------------------------------------------------------
(* The log of a call *)

Write(cmd) == [op |-> "write", cmd |-> cmd, reply |-> ""]
Query(cmd, r) == [op |-> "query", cmd |-> cmd, reply |-> r]
Sleep(w) == [op |-> "sleep", cmd |-> NumStr(w), reply |-> ""]

NoCall ==
    [fn |-> "", mode |-> "", para |-> "", channel |-> NoneArg,
     timeout |-> None, wait |-> None, install |-> FALSE, asked |-> FALSE,
                text |-> "", color |-> NoColor, background |-> "",
                inherited |-> FALSE,
                retry |-> FALSE]

Idle == pc = "idle"

Finished == pc \in {"returned", "raised"}

NoPrev == [kind |-> "", ok |-> FALSE, explicit |-> FALSE, list |-> FALSE]

----------------------------------------------------------------------------
(* _readDVM *)

\* An argument taken as the current channel even when it is a list
ChannelInUseAnyArg(chanArg) ==
    IF chanArg /= NoneArg THEN chanArg ELSE channel

\* A default that falls back to the first channel instead of the last one
ChannelInUseFirst(chanArg) ==
    IF chanArg /= NoneArg /\ ~chanArg.isList THEN chanArg ELSE Scalar("1")

\* line 273-274: the channel in use once the argument has been taken
ChannelInUse(chanArg) ==
    IF chanArg /= NoneArg /\ ~chanArg.isList THEN chanArg ELSE channel

\* lines 273, 421: the call is given no channel and finds the one that the
\* measurement call before it was given and returned with
Inherits(chanArg) ==
    /\ chanArg = NoneArg
    /\ prev.kind \in {"dvm", "measure"} /\ prev.ok /\ prev.explicit

\* lines 273, 421, 171: the call is given no channel, right after a call of
\* the same kind was refused the scalar channel it was given
Retries(kind, chanArg) ==
    /\ chanArg = NoneArg
    /\ prev.kind = kind /\ ~prev.ok /\ prev.explicit /\ ~prev.list

\* line 277: the list check
IsListChannel(chanArg) == ChannelInUse(chanArg).isList \/ chanArg.isList

\* A validity check that looks at the items of a list selector one by one
RejectsPerItem(chanArg, validList) ==
    LET ch == IF chanArg /= NoneArg THEN chanArg ELSE channel IN
    \/ ch.items = <<>>
    \/ \E i \in 1 .. Len(ch.items) :
          \A j \in 1 .. Len(validList) : validList[j] /= ch.items[i]

\* lines 277-282 (and 175-180, 425-430): the call is refused with ValueError
Rejects(chanArg, validList) ==
    IsListChannel(chanArg) \/ ~InList(ChannelInUse(chanArg), validList)

\* The DVM is enabled when the reply says it already is
NeedEnableInverted(en) == _1OR0(en)

\* line 285: the DVM has to be enabled
NeedEnable(en) == ~_1OR0(en)

\* The DVM source is switched on every call
AlwaysDvmSourceSwitch(src, c) == TRUE

\* line 297: the DVM source has to be switched
NeedDvmSourceSwitch(src, c) == _chanNumber(src) /= c

\* A wait that counts as given whenever it is not None
TruthyNotNone(w) == w /= None

\* line 306: the truth value of wait
Truthy(w) == w /= None /\ w /= 0

\* The while condition with the comparison turned round
LoopContinuesInverted(v) == v <= OverRange

\* The while condition with a strict comparison
LoopContinuesStrict(v) == v > OverRange

\* line 312: the while condition
LoopContinues(v) == v >= OverRange

\* The timeout test with a strict comparison
TimedOutStrict(to, duration) == to /= None /\ duration > to

\* line 314: the timeout test
TimedOut(to, duration) == to /= None /\ duration >= to

\* The mode test against the long form of the mnemonic
IsFreqModeLong(m) == m = "FREQuency"

\* line 323: the mode test
IsFreqMode(m) == m = "FREQ"

\* DVMisEnabled's reply from the instrument
EnableReply == IF instDvmEnabled THEN "1" ELSE "0"

\* A set-up that selects the mode only when it switched something
DvmSetupModeOnSwitch(m, c, w) ==
    <<Query("DVM:ENABle?", EnableReply)>>
    \o (IF NeedEnable(EnableReply) THEN <<Write("DVM:ENABLE ON")>> ELSE <<>>)
    \o <<Query("DVM:SOURce?", instDvmSource)>>
    \o (IF NeedDvmSourceSwitch(instDvmSource, c)
        THEN <<Write("DVM:SOURce " \o channelStr(c))>> ELSE <<>>)
    \o (IF NeedEnable(EnableReply) \/ NeedDvmSourceSwitch(instDvmSource, c)
        THEN <<Write("DVM:MODE " \o m)>> ELSE <<>>)
    \o (IF Truthy(w) THEN <<Sleep(w)>> ELSE <<>>)

\* lines 284-307: the commands that set the DVM up for channel c
DvmSetup(m, c, w) ==
    <<Query("DVM:ENABle?", EnableReply)>>
    \o (IF NeedEnable(EnableReply) THEN <<Write("DVM:ENABLE ON")>> ELSE <<>>)
    \o <<Query("DVM:SOURce?", instDvmSource)>>
    \o (IF NeedDvmSourceSwitch(instDvmSource, c)
        THEN <<Write("DVM:SOURce " \o channelStr(c))>> ELSE <<>>)
    \o <<Write("DVM:MODE " \o m)>>
    \o (IF Truthy(w) THEN <<Sleep(w)>> ELSE <<>>)

\* lines 258-311: the call up to the start of the poll loop
_readDVM(fn, m, chanArg, to, w) ==
    /\ Idle
    /\ call' = [fn |-> fn, mode |-> m, para |-> "", channel |-> chanArg,
                timeout |-> to, wait |-> w, install |-> FALSE,
                asked |-> FALSE,
                text |-> "", color |-> NoColor, background |-> "",
                inherited |-> Inherits(chanArg),
                retry |-> Retries("dvm", chanArg)]
    /\ prev' = NoPrev
    /\ UNCHANGED annot
    /\ channel' = ChannelInUse(chanArg)
    /\ IF Rejects(chanArg, _chanAnaValidList)
       THEN /\ pc' = "raised"
            /\ log' = <<>>
            /\ val' = None /\ startTime' = 0 /\ now' = 0 /\ retval' = None
            /\ UNCHANGED <<instDvmEnabled, instDvmSource, instMeasSource>>
       ELSE LET c == channel'.items[1] IN
            /\ pc' = "dvmLoop"
            /\ log' = DvmSetup(m, c, w)
            /\ instDvmEnabled' = TRUE
            /\ instDvmSource' = IF NeedDvmSourceSwitch(instDvmSource, c)
                                THEN channelStr(c) ELSE instDvmSource
            /\ now' = IF Truthy(w) THEN w ELSE 0
            /\ startTime' = now'
            /\ val' = OverRange
            /\ retval' = None
            /\ UNCHANGED instMeasSource

\* The DVM:CURRent? polls of the log
Polls == SelectSeq(log, LAMBDA e : e.cmd = "DVM:CURRent?")

\* A loop that polls once before it looks at the timeout
readDVM_pollBeforeCheck ==
    /\ pc = "dvmLoop"
    /\ LoopContinues(val)
    /\ Len(Polls) = 0 \/ ~TimedOut(call.timeout, now - startTime)
    /\ Len(Polls) < MaxPolls
    /\ \E r \in ReplyStrings :
          /\ val' = float(r)
          /\ log' = Append(log, Query("DVM:CURRent?", r))
    /\ UNCHANGED <<channel, instDvmEnabled, instDvmSource, instMeasSource,
                   pc, call, startTime, now, retval, prev, annot>>

\* lines 312-320: one iteration of the poll loop that reaches the query
readDVM_poll ==
    /\ pc = "dvmLoop"
    /\ LoopContinues(val)
    /\ ~TimedOut(call.timeout, now - startTime)
    /\ Len(Polls) < MaxPolls
    /\ \E r \in ReplyStrings :
          /\ val' = float(r)
          /\ log' = Append(log, Query("DVM:CURRent?", r))
    /\ UNCHANGED <<channel, instDvmEnabled, instDvmSource, instMeasSource,
                   pc, call, startTime, now, retval, prev, annot>>

\* A return that asks for the frequency and hands back the last poll
readDVM_returnLastPoll ==
    /\ pc = "dvmLoop"
    /\ ~LoopContinues(val) \/ TimedOut(call.timeout, now - startTime)
    /\ IF IsFreqMode(call.mode)
       THEN \E r \in ReplyStrings :
               /\ retval' = val
               /\ log' = Append(log, Query("DVM:FREQ?", r))
       ELSE /\ retval' = val
            /\ log' = log
    /\ pc' = "returned"
    /\ UNCHANGED <<channel, instDvmEnabled, instDvmSource, instMeasSource,
                   call, val, startTime, now, prev, annot>>

\* lines 312-326: the loop ends, on a valid reading or on the timeout
readDVM_return ==
    /\ pc = "dvmLoop"
    /\ ~LoopContinues(val) \/ TimedOut(call.timeout, now - startTime)
    /\ IF IsFreqMode(call.mode)
       THEN \E r \in ReplyStrings :
               /\ retval' = float(r)
               /\ log' = Append(log, Query("DVM:FREQ?", r))
       ELSE /\ retval' = val
            /\ log' = log
    /\ pc' = "returned"
    /\ UNCHANGED <<channel, instDvmEnabled, instDvmSource, instMeasSource,
                   call, val, startTime, now, prev, annot>>

\* The wall clock advances while the loop runs (followed only when a
\* timeout is set: line 314 does not look at the duration otherwise)
Tick ==
    /\ pc = "dvmLoop"
    /\ call.timeout /= None
    /\ now - startTime < MaxTimeout + 1
    /\ now' = now + 1
    /\ UNCHANGED <<channel, instDvmEnabled, instDvmSource, instMeasSource,
                   pc, call, val, startTime, log, retval, prev, annot>>

measureDVMacrms ==
    \E ch \in ChanArgs, to \in Timeouts, w \in Waits :
        _readDVM("measureDVMacrms", "ACRM", ch, to, w)

measureDVMdc ==
    \E ch \in ChanArgs, to \in Timeouts, w \in Waits :
        _readDVM("measureDVMdc", "DC", ch, to, w)

measureDVMdcrms ==
    \E ch \in ChanArgs, to \in Timeouts, w \in Waits :
        _readDVM("measureDVMdcrms", "DCRM", ch, to, w)

measureDVMfreq ==
    \E ch \in ChanArgs, to \in Timeouts, w \in Waits :
        _readDVM("measureDVMfreq", "FREQ", ch, to, w)

DvmEntryPoints ==
    {"measureDVMacrms", "measureDVMdc", "measureDVMdcrms", "measureDVMfreq"}

----------------------------------------------------------------------------
(* _measure *)

\* The source test made the way _readDVM makes it, on the channel number
NeedMeasSourceSwitchNormalised(src, c) == _chanNumber(src) /= c

\* line 440: the measurement source has to be switched (raw string compare)
NeedMeasSourceSwitch(src, c) == src /= c

\* lines 445-451: the command form of the measurement
strWr(m, para) == IF para /= "" THEN "MEASure:" \o m \o " " \o para
                  ELSE "MEASure:" \o m

\* lines 445-451: the query form of the measurement
strQu(m, para) == IF para /= "" THEN "MEASure:" \o m \o "? " \o para
                  ELSE "MEASure:" \o m \o "?"

\* The install writes the other way round
InstallWritesSwapped(m, para, install) ==
    IF install
    THEN <<Write(strWr(m, para)), Write("MEASure:STATistics:DISPlay ON")>>
    ELSE <<>>

\* lines 453-458: the writes that install the measurement
InstallWrites(m, para, install) ==
    IF install
    THEN <<Write("MEASure:STATistics:DISPlay ON"), Write(strWr(m, para))>>
    ELSE <<>>

\* A _measure that asks again when the reading is over range
MeasureCommandsRetry(m, para, c, w, install, r) ==
    <<Query("MEASure:SOURce?", instMeasSource)>>
    \o (IF NeedMeasSourceSwitch(instMeasSource, c)
        THEN <<Write("MEASure:SOURce " \o c)>> ELSE <<>>)
    \o InstallWrites(m, para, install)
    \o (IF Truthy(w) THEN <<Sleep(w)>> ELSE <<>>)
    \o (IF float(r) >= OverRange THEN <<Query(strQu(m, para), r)>> ELSE <<>>)
    \o <<Query(strQu(m, para), r)>>

\* lines 438-465: the commands of a _measure call on channel c, the
\* instrument answering the measurement query with r
MeasureCommands(m, para, c, w, install, r) ==
    <<Query("MEASure:SOURce?", instMeasSource)>>
    \o (IF NeedMeasSourceSwitch(instMeasSource, c)
        THEN <<Write("MEASure:SOURce " \o c)>> ELSE <<>>)
    \o InstallWrites(m, para, install)
    \o (IF Truthy(w) THEN <<Sleep(w)>> ELSE <<>>)
    \o <<Query(strQu(m, para), r)>>

\* lines 407-467, called by entry point fn, which was asked to install or not
_measure(fn, asked, m, para, chanArg, w, install) ==
    /\ Idle
    /\ call' = [fn |-> fn, mode |-> m, para |-> para, channel |-> chanArg,
                timeout |-> None, wait |-> w, install |-> install,
                asked |-> asked,
                text |-> "", color |-> NoColor, background |-> "",
                inherited |-> Inherits(chanArg),
                retry |-> Retries("measure", chanArg)]
    /\ prev' = NoPrev
    /\ UNCHANGED annot
    /\ channel' = ChannelInUse(chanArg)
    /\ val' = None /\ startTime' = 0 /\ now' = 0
    /\ UNCHANGED <<instDvmEnabled, instDvmSource>>
    /\ IF Rejects(chanArg, _chanAllValidList)
       THEN /\ pc' = "raised"
            /\ log' = <<>>
            /\ retval' = None
            /\ UNCHANGED instMeasSource
       ELSE LET c == channel'.items[1] IN
            \E r \in ReplyStrings :
               /\ pc' = "returned"
               /\ log' = MeasureCommands(m, para, c, w, install, r)
               /\ instMeasSource' = IF NeedMeasSourceSwitch(instMeasSource, c)
                                    THEN c ELSE instMeasSource
               /\ retval' = float(r)

\* lines 470-490
measureBitRate ==
    \E ch \in ChanArgs, w \in Waits, install \in BOOLEAN :
        _measure("measureBitRate", install, "BRATe", "", ch, w, install)

\* A counter measurement that passes install on, as its neighbours do
measureCounterFrequencyInstalls ==
    \E ch \in ChanArgs, w \in Waits, install \in BOOLEAN :
        _measure("measureCounterFrequency", install,
                 "COUNter", "", ch, w, install)

\* lines 511-532: install is not passed on
measureCounterFrequency ==
    \E ch \in ChanArgs, w \in Waits, install \in BOOLEAN :
        _measure("measureCounterFrequency", install,
                 "COUNter", "", ch, w, FALSE)

\* lines 905-923
measureVoltAverage ==
    \E ch \in ChanArgs, w \in Waits, install \in BOOLEAN :
        _measure("measureVoltAverage", install,
                 "VAVerage", "DISPlay", ch, w, install)

MeasureEntryPoints ==
    {"measureBitRate", "measureCounterFrequency", "measureVoltAverage"}

----------------------------------------------------------------------------
(* channelLabel and setupAutoscale *)

\* Labels a caller may pass
Labels == {"L"}

\* lines 163-183
channelLabel ==
    \E label \in Labels, chanArg \in ChanArgs :
    /\ Idle
    /\ call' = [fn |-> "channelLabel", mode |-> label, para |-> "",
                channel |-> chanArg, timeout |-> None, wait |-> None,
                install |-> FALSE, asked |-> FALSE,
                text |-> "", color |-> NoColor, background |-> "",
                inherited |-> FALSE,
                retry |-> Retries("channelLabel", chanArg)]
    /\ prev' = NoPrev
    /\ UNCHANGED annot
    /\ channel' = ChannelInUse(chanArg)
    /\ val' = None /\ startTime' = 0 /\ now' = 0 /\ retval' = None
    /\ UNCHANGED <<instDvmEnabled, instDvmSource, instMeasSource>>
    /\ IF Rejects(chanArg, _chanAnaValidList)
       THEN /\ pc' = "raised"
            /\ log' = <<>>
       ELSE /\ pc' = "returned"
            /\ log' = <<Write("CHAN" \o channel'.items[1] \o ":LABel \""
                              \o label \o "\""),
                        Write("DISPlay:LABel ON")>>

\* A call of a method of the parent class, whose commands are its own
Parent(name) == [op |-> "parent", cmd |-> name, reply |-> ""]

\* A loop that gives up at the first entry that is not valid
RECURSIVE ViewWritesUntilInvalid(_)
ViewWritesUntilInvalid(chanlist) ==
    IF chanlist = <<>> THEN <<>>
    ELSE IF \E i \in 1 .. Len(_chanAllValidList) :
               _chanAllValidList[i] = Head(chanlist)
    THEN <<Write("VIEW " \o Head(chanlist))>>
         \o ViewWritesUntilInvalid(Tail(chanlist))
    ELSE <<>>

\* lines 210-215: the VIEW writes for the entries of chanlist that are valid
RECURSIVE ViewWrites(_)
ViewWrites(chanlist) ==
    IF chanlist = <<>> THEN <<>>
    ELSE (IF \E i \in 1 .. Len(_chanAllValidList) :
                _chanAllValidList[i] = Head(chanlist)
          THEN <<Write("VIEW " \o Head(chanlist))>> ELSE <<>>)
         \o ViewWrites(Tail(chanlist))

\* lines 191-221
setupAutoscale ==
    \E chanArg \in ChanArgs :
    /\ Idle
    /\ call' = [fn |-> "setupAutoscale", mode |-> "", para |-> "",
                channel |-> chanArg, timeout |-> None, wait |-> None,
                install |-> FALSE, asked |-> FALSE,
                text |-> "", color |-> NoColor, background |-> "",
                inherited |-> FALSE,
                retry |-> FALSE]
    /\ prev' = NoPrev
    /\ UNCHANGED annot
    /\ val' = None /\ startTime' = 0 /\ now' = 0 /\ retval' = None
    /\ UNCHANGED <<instDvmEnabled, instDvmSource, instMeasSource>>
    /\ pc' = "returned"
    /\ IF chanArg /= NoneArg
       THEN /\ channel' = chanArg
            /\ log' = <<Parent("outputOffAll")>>
                      \o ViewWrites(chanArg.items)
                      \o <<Parent("autoscale")>>
       ELSE /\ channel' = channel
            /\ log' = <<Parent("autoscale")>>

----------------------------------------------------------------------------
(* The annotation: annotate, annotateColor, annotateOff *)

\* line 96: the newest firmware that takes the legacy commands, 2.60
LegacyMaxVersion == 260

\* The firmware versions around the threshold
Versions == (LegacyMaxVersion - 1) .. (LegacyMaxVersion + 1)

Texts == {"A", "B"}
Backgrounds == {"TRAN", "OPAQ"}

\* The colour arguments: None, names of the table, and one that is not
ColorArgs == {NoColor, "ch1", "ch2", "red", "blue"}

\* lines 105-120
_colorNameOldtoNew ==
    ("ch1" :> "CHAN1") @@ ("ch2" :> "CHAN2") @@ ("ch3" :> "CHAN3") @@
    ("ch4" :> "CHAN4") @@ ("ch5" :> "CHAN5") @@ ("ch6" :> "CHAN6") @@
    ("ch7" :> "CHAN7") @@ ("ch8" :> "CHAN8") @@ ("dig" :> "DCH") @@
    ("math" :> "FUNC1") @@ ("ref" :> "WMEM") @@ ("marker" :> "MARK") @@
    ("white" :> "FUNC14") @@ ("red" :> "FUNC12")

\* line 96
IsLegacyVersion(v) == v <= LegacyMaxVersion

UsesBookmarkFromThreshold(v) == v >= LegacyMaxVersion

\* lines 132, 157
UsesBookmark(v) == v > LegacyMaxVersion

BookmarkSetRaw(text, color) ==
    Write("DISPlay:BOOKmark1:SET NONE,\"" \o text \o "\"," \o color
          \o ",\"" \o text \o "\"")

\* lines 145-148, for a colour of the table
BookmarkSet(text, color) ==
    Write("DISPlay:BOOKmark1:SET NONE,\"" \o text \o "\","
          \o _colorNameOldtoNew[color] \o ",\"" \o text \o "\"")

\* A colour that is used for the call but not kept
SavedColorNotKept(color) == _annotationColor

\* lines 133-135: the colour annotateColor(color) leaves in the object
SavedColor(color) ==
    IF UsesBookmark(_version) /\ color /= NoColor
    THEN color ELSE _annotationColor

\* line 147: the lookup of a colour that is not in the table raises KeyError
ColorRaises(color) ==
    /\ UsesBookmark(_version)
    /\ SavedColor(color) \notin DOMAIN _colorNameOldtoNew

\* lines 132-152: the writes of annotateColor(color) when the text is text
ColorWrites(text, color) ==
    IF UsesBookmark(_version)
    THEN <<Write("DISPlay:BOOKmark1:XPOSition 0.015"),
           Write("DISPlay:BOOKmark1:YPOSition 0.06")>>
         \o (IF ColorRaises(color) THEN <<>>
             ELSE <<BookmarkSet(text, SavedColor(color))>>)
    ELSE IF color /= NoColor
    THEN <<Write("DISPlay:ANN:COLor " \o color)>>
    ELSE <<>>

\* What no annotation call changes
AnnotationFrame ==
    /\ prev' = NoPrev
    /\ val' = None /\ startTime' = 0 /\ now' = 0 /\ retval' = None
    /\ UNCHANGED <<channel, instDvmEnabled, instDvmSource, instMeasSource,
                   _version>>

\* lines 78-102
annotate ==
    \E text \in Texts, color \in ColorArgs, background \in Backgrounds :
    /\ Idle
    /\ call' = [NoCall EXCEPT !.fn = "annotate", !.text = text,
                              !.color = color, !.background = background]
    /\ _annotationText' = text
    /\ _annotationColor' = SavedColor(color)
    /\ IF ColorRaises(color)
       THEN /\ pc' = "raised"
            /\ log' = ColorWrites(text, color)
       ELSE /\ pc' = "returned"
            /\ log' = ColorWrites(text, color)
                      \o (IF IsLegacyVersion(_version)
                          THEN <<Write("DISPlay:ANN:BACKground "
                                       \o background),
                                 Write("DISPlay:ANN:TEXT \"" \o text
                                       \o "\""),
                                 Write("DISPlay:ANN ON")>>
                          ELSE <<>>)
    /\ AnnotationFrame

\* lines 122-152
annotateColor ==
    \E color \in ColorArgs :
    /\ Idle
    /\ call' = [NoCall EXCEPT !.fn = "annotateColor", !.color = color]
    /\ _annotationColor' = SavedColor(color)
    /\ pc' = IF ColorRaises(color) THEN "raised" ELSE "returned"
    /\ log' = ColorWrites(_annotationText, color)
    /\ UNCHANGED _annotationText
    /\ AnnotationFrame

\* lines 154-160
annotateOff ==
    /\ Idle
    /\ call' = [NoCall EXCEPT !.fn = "annotateOff"]
    /\ pc' = "returned"
    /\ log' = IF UsesBookmark(_version)
              THEN <<Write("DISPlay:BOOKmark1:DELete")>>
              ELSE <<Write("DISPlay:ANN OFF")>>
    /\ UNCHANGED <<_annotationText, _annotationColor>>
    /\ AnnotationFrame

----------------------------------------------------------------------------
(* The instrument's front panel: its settings change between calls *)

FrontPanel ==
    /\ Idle
    /\ \E en \in BOOLEAN, s \in DvmSources, ms \in MeasSources :
          /\ <<en, s, ms>> /= <<instDvmEnabled, instDvmSource, instMeasSource>>
          /\ instDvmEnabled' = en
          /\ instDvmSource' = s
          /\ instMeasSource' = ms
    /\ prev' = NoPrev
    /\ UNCHANGED <<channel, pc, call, val, startTime, now, log, retval, annot>>

\* The kind of entry point fn
KindOf(fn) ==
    IF fn \in DvmEntryPoints THEN "dvm"
    ELSE IF fn \in MeasureEntryPoints THEN "measure"
    ELSE fn

\* The caller takes the result of the finished call and may call again
Resume ==
    /\ Finished
    /\ prev' = [kind |-> KindOf(call.fn), ok |-> pc = "returned",
                explicit |-> call.channel /= NoneArg,
                list |-> call.channel.isList]
    /\ pc' = "idle"
    /\ call' = NoCall
    /\ log' = <<>>
    /\ val' = None /\ startTime' = 0 /\ now' = 0 /\ retval' = None
    /\ UNCHANGED <<channel, instDvmEnabled, instDvmSource, instMeasSource,
                   annot>>

----------------------------------------------------------------------------

\* The object after construction, facing an instrument in any setting.  The
\* current channel starts as the first analog channel; setupAutoscale can
\* put any selector there afterwards.
Init ==
    /\ channel = Scalar("1")
    /\ instDvmEnabled \in BOOLEAN
    /\ instDvmSource \in DvmSources
    /\ instMeasSource \in MeasSources
    /\ pc = "idle"
    /\ call = NoCall
    /\ val = None
    /\ startTime = 0
    /\ now = 0
    /\ log = <<>>
    /\ retval = None
    /\ prev = NoPrev
    /\ _annotationText = ""
    /\ _annotationColor = "ch1"
    /\ _version = LegacyMaxVersion

Next ==
    \/ measureDVMacrms
    \/ measureDVMdc
    \/ measureDVMdcrms
    \/ measureDVMfreq
    \/ readDVM_poll
    \/ readDVM_return
    \/ Tick
    \/ measureBitRate
    \/ measureCounterFrequency
    \/ measureVoltAverage
    \/ channelLabel
    \/ setupAutoscale
    \/ FrontPanel
    \/ Resume

Spec == Init /\ [][Next]_vars

\* The annotation calls, on an instrument of any firmware version
InitAnnot ==
    /\ channel = Scalar("1")
    /\ instDvmEnabled \in BOOLEAN
    /\ instDvmSource \in DvmSources
    /\ instMeasSource \in MeasSources
    /\ pc = "idle"
    /\ call = NoCall
    /\ val = None
    /\ startTime = 0
    /\ now = 0
    /\ log = <<>>
    /\ retval = None
    /\ prev = NoPrev
    /\ _annotationText = ""
    /\ _annotationColor = "ch1"
    /\ _version \in Versions

NextAnnot ==
    \/ annotate
    \/ annotateColor
    \/ annotateOff
    \/ Resume

SpecAnnot == InitAnnot /\ [][NextAnnot]_vars

\* The loop iterates, each query returns and the wall clock advances
FairSpec ==
    /\ Spec
    /\ WF_vars(readDVM_poll)
    /\ WF_vars(readDVM_return)
    /\ WF_vars(Tick)

----------------------------------------------------------------------------
(* Vocabulary of the properties *)

IsDvmCall == call.fn \in DvmEntryPoints
IsMeasureCall == call.fn \in MeasureEntryPoints

\* The call got past the channel checks
Passed == pc \in {"dvmLoop", "returned"}

\* The reading of the i-th DVM:CURRent? poll of the call
PollValue(i) == float(Polls[i].reply)

\* Every DVM:CURRent? reply so far was over range
AllPollsOverRange == \A i \in 1 .. Len(Polls) : PollValue(i) >= OverRange

\* How many entries of the log satisfy Test
Count(Test(_)) == Len(SelectSeq(log, Test))

IsDvmSourceWrite(e) ==
    e.op = "write" /\ \E c \in ScalarSelectors : e.cmd = "DVM:SOURce " \o channelStr(c)
IsEnableWrite(e) == e.op = "write" /\ e.cmd = "DVM:ENABLE ON"
IsDisableWrite(e) == e.op = "write" /\ e.cmd = "DVM:ENABLE OFF"
IsFreqQuery(e) == e.op = "query" /\ e.cmd = "DVM:FREQ?"
IsInstrumentCommand(e) == e.op \in {"write", "query"}
IsMeasurementQuery(e) == e.op = "query" /\ e.cmd /= "MEASure:SOURce?"

NoDvmSourceWrite(l) == \A i \in 1 .. Len(l) : ~IsDvmSourceWrite(l[i])

\* The valid analog-channel set '1'..'maxChannel'
AnalogChannelSet == { NumStr(x) : x \in 1 .. MaxChannel }

\* The names of the analog channels and of the two digital pods
AllChannelSet ==
    { channelStr(NumStr(x)) : x \in 1 .. MaxChannel } \cup {"POD1", "POD2"}

SelectorIn(sel, S) == ~sel.isList /\ sel.items /= <<>> /\ sel.items[1] \in S

----------------------------------------------------------------------------
(* C1 *)

\* The polls so far are n over-range replies followed by a valid one
ScriptedPolls(n) ==
    /\ Len(Polls) >= n + 1
    /\ \A i \in 1 .. n : PollValue(i) >= OverRange
    /\ PollValue(n + 1) < OverRange

\* C1 as claimed: with timeout=None, n over-range replies and then a valid
\* one make the call issue exactly n+1 DVM:CURRent? queries and return the
\* valid value, whatever the mode.
C1_ReturnsPollValue ==
    (IsDvmCall /\ call.timeout = None) =>
        \A n \in 0 .. MaxPolls :
            ScriptedPolls(n) =>
                /\ Len(Polls) = n + 1
                /\ Passed
                /\ pc = "returned" => retval = PollValue(n + 1)

\* C1 amended: with timeout=None, n over-range replies and then a valid one
\* make the call issue exactly n+1 DVM:CURRent? queries; it returns the valid
\* value in every mode but FREQ, where it returns the DVM:FREQ? reply.
C1_ReturnsAfterValidPoll ==
    (IsDvmCall /\ call.timeout = None) =>
        \A n \in 0 .. MaxPolls :
            ScriptedPolls(n) =>
                /\ Len(Polls) = n + 1
                /\ Passed
                /\ pc = "returned" =>
                      retval = IF call.mode = "FREQ"
                               THEN float(log[Len(log)].reply)
                               ELSE PollValue(n + 1)

C1_Witness ==
    /\ pc = "returned" /\ call.fn = "measureDVMdc" /\ call.timeout = None
    /\ Len(Polls) = 2
    /\ PollValue(1) >= OverRange /\ PollValue(2) < OverRange
    /\ retval = PollValue(2)

----------------------------------------------------------------------------
(* C2 *)

\* C2 as claimed: a DVM entry point whose timeout elapses while every
\* DVM:CURRent? reply was over range returns (it does not raise) a value
\* >= OverRange, the last one seen.
C2_TimeoutReturnsSentinel ==
    (pc = "returned" /\ IsDvmCall /\ call.timeout /= None /\ AllPollsOverRange) =>
        /\ retval >= OverRange
        /\ Len(Polls) > 0 => retval = PollValue(Len(Polls))

----------------------------------------------------------------------------
(* C3 *)

----------------------------------------------------------------------------
(* C4 *)

\* C4: a _readDVM call sends no DVM:SOURce write when the reply to
\* DVM:SOURce? is the name of the requested channel, and none either when it
\* repeats, for the same channel, a call that returned and the instrument has
\* been left alone since.
C4_NoNeedlessSourceSwitch ==
    [][ (pc = "idle" /\ pc' = "dvmLoop") =>
          /\ instDvmSource = channelStr(channel'.items[1])
                => NoDvmSourceWrite(log')
          /\ (prev.kind = "dvm" /\ prev.ok /\ channel' = channel)
                => NoDvmSourceWrite(log') ]_vars

C4_Witness ==
    /\ pc = "dvmLoop" /\ IsDvmCall
    /\ log[2].cmd = "DVM:SOURce?" /\ log[2].reply = channelStr(channel.items[1])
    /\ log[3].cmd = "DVM:MODE " \o call.mode

----------------------------------------------------------------------------
(* C5 *)

\* C5: a _readDVM call in mode FREQ ends with exactly one DVM:FREQ? query,
\* its last command, after any number of polls; in any other mode it sends
\* no DVM:FREQ? query.
C5_OneFreqQueryLast ==
    IsDvmCall =>
        /\ pc = "dvmLoop" => Count(IsFreqQuery) = 0
        /\ pc = "returned" =>
              IF call.mode = "FREQ"
              THEN Count(IsFreqQuery) = 1 /\ IsFreqQuery(log[Len(log)])
              ELSE Count(IsFreqQuery) = 0

C5_Witness ==
    /\ pc = "returned" /\ call.mode = "FREQ" /\ Len(Polls) = 2
    /\ Count(IsFreqQuery) = 1

----------------------------------------------------------------------------
(* C6 *)

\* C6: _readDVM, _measure and channelLabel send nothing while the channel in
\* use is a list: a list argument, or no argument with a list in the
\* current-channel field, raises before any command.
C6_NoCommandOnList ==
    (IsDvmCall \/ IsMeasureCall \/ call.fn = "channelLabel") =>
        /\ (call.channel.isList \/ (call.channel = NoneArg /\ channel.isList))
              => (pc = "raised" /\ log = <<>>)
        /\ log /= <<>> => ~channel.isList

C6_Witness ==
    /\ pc = "raised" /\ log = <<>>
    /\ call.fn = "measureDVMdc" /\ call.channel = NoneArg /\ channel.isList

----------------------------------------------------------------------------
(* C7 *)

\* C7: with timeout=None the poll loop is left only on a DVM:CURRent? reply
\* strictly below OverRange; while the last reply is >= OverRange (equal
\* included) the next query can be issued and the call does not return.
C7_PollsUntilValid ==
    /\ [][ (pc = "dvmLoop" /\ call.timeout = None /\ pc' /= "dvmLoop") =>
             /\ Len(Polls) >= 1
             /\ PollValue(Len(Polls)) < OverRange
             /\ pc' = "returned" ]_vars
    /\ [] ( (pc = "dvmLoop" /\ call.timeout = None /\ val >= OverRange
                /\ Len(Polls) < MaxPolls)
            => (ENABLED readDVM_poll /\ ~ENABLED readDVM_return) )

C7_Witness ==
    /\ pc = "dvmLoop" /\ call.timeout = None
    /\ Len(Polls) = 2 /\ PollValue(1) = OverRange

----------------------------------------------------------------------------
(* C8 *)

\* C8: with a timeout set, _readDVM returns whatever the replies are, and
\* every DVM:CURRent? query is issued at an elapsed time below the timeout.
C8_TimeoutEndsPolling ==
    /\ (pc = "dvmLoop" /\ call.timeout /= None) ~> (pc = "returned")
    /\ [][ (pc = "dvmLoop" /\ call.timeout /= None /\ Len(Polls') > Len(Polls))
             => now - startTime < call.timeout ]_vars

C8_Witness ==
    /\ pc = "returned" /\ IsDvmCall /\ call.timeout = 1
    /\ Len(Polls) = 2 /\ AllPollsOverRange

----------------------------------------------------------------------------
(* C9 *)

\* C9: _readDVM sends the DVM enable write once when the reply to
\* DVM:ENABle? says disabled, not at all when it says enabled, and never a
\* disable write.
C9_EnableOnlyWhenDisabled ==
    (IsDvmCall /\ Passed) =>
        /\ log[1].cmd = "DVM:ENABle?"
        /\ log[1].reply = "0" => Count(IsEnableWrite) = 1
        /\ log[1].reply = "1" => Count(IsEnableWrite) = 0
        /\ Count(IsDisableWrite) = 0

C9_Witness ==
    /\ IsDvmCall /\ pc = "returned"
    /\ log[1].reply = "0" /\ IsEnableWrite(log[2])

----------------------------------------------------------------------------
(* C10 *)

\* C10: a _measure call that passes validation sends exactly one measurement
\* query, as its last command, and returns its reply as a float, over range
\* or not.
C10_OneMeasurementQuery ==
    (IsMeasureCall /\ pc = "returned") =>
        /\ Count(IsMeasurementQuery) = 1
        /\ log[Len(log)] = Query(strQu(call.mode, call.para), NumStr(retval))

C10_Witness ==
    /\ IsMeasureCall /\ pc = "returned" /\ retval >= OverRange
    /\ call.install /\ call.para = "DISPlay"

----------------------------------------------------------------------------
(* C11 *)

IsMeasSourceWrite(e) ==
    e.op = "write" /\ \E c \in AllChannelSet : e.cmd = "MEASure:SOURce " \o c

\* C11: a _measure call that passes validation writes 'MEASure:SOURce <chan>'
\* if and only if the reply to 'MEASure:SOURce?' is not, as a string, the
\* current channel; it writes it at most once, right after the query.
C11_SourceWriteIffRawDiffers ==
    (IsMeasureCall /\ pc = "returned") =>
        LET c == channel.items[1] IN
        /\ log[1].op = "query" /\ log[1].cmd = "MEASure:SOURce?"
        /\ Count(IsMeasSourceWrite) <= 1
        /\ (Count(IsMeasSourceWrite) = 1) <=> (log[1].reply /= c)
        /\ log[1].reply /= c => log[2] = Write("MEASure:SOURce " \o c)

\* A call on the channel the instrument already measures on
C11_Witness ==
    /\ IsMeasureCall /\ pc = "returned"
    /\ log[1].reply = "CHAN1" /\ channel = Scalar("CHAN1")
    /\ Count(IsMeasSourceWrite) = 0

----------------------------------------------------------------------------
(* C16 *)

----------------------------------------------------------------------------
(* C17 *)

DvmModes == {"ACRM", "DC", "DCRM", "FREQ"}

IsModeWrite(e) == e.op = "write" /\ \E m \in DvmModes : e.cmd = "DVM:MODE " \o m
IsEnableQuery(e) == e.op = "query" /\ e.cmd = "DVM:ENABle?"
IsDvmSourceQuery(e) == e.op = "query" /\ e.cmd = "DVM:SOURce?"
IsPoll(e) == e.op = "query" /\ e.cmd = "DVM:CURRent?"

\* C17: a _readDVM call that passes validation sends, in this order, one
\* 'DVM:ENABle?' query, the enable write if any, one 'DVM:SOURce?' query, the
\* source write if any, and exactly one 'DVM:MODE <mode>' write; every
\* 'DVM:CURRent?' query comes after the mode write.
C17_SetupOrder ==
    (IsDvmCall /\ Passed) =>
        /\ Len(log) >= 3
        /\ IsEnableQuery(log[1]) /\ Count(IsEnableQuery) = 1
        /\ Count(IsEnableWrite) <= 1
        /\ Count(IsDvmSourceQuery) = 1
        /\ Count(IsDvmSourceWrite) <= 1
        /\ Count(IsModeWrite) = 1
        /\ LET k == IF IsEnableWrite(log[2]) THEN 3 ELSE 2 IN
           /\ IsDvmSourceQuery(log[k])
           /\ Len(log) >= k + 1
           /\ LET j == IF IsDvmSourceWrite(log[k + 1]) THEN k + 2 ELSE k + 1 IN
              /\ Len(log) >= j
              /\ log[j] = Write("DVM:MODE " \o call.mode)
              /\ \A i \in 1 .. Len(log) : IsPoll(log[i]) => i > j

\* Enable and source were as requested: the mode is written all the same
C17_Witness ==
    /\ IsDvmCall /\ pc = "returned"
    /\ log[1].reply = "1" /\ IsDvmSourceQuery(log[2]) /\ IsModeWrite(log[3])
    /\ Len(Polls) >= 1

----------------------------------------------------------------------------
(* C18 *)

\* A write of a _measure call other than the source switch
IsExtraWrite(e) == e.op = "write" /\ ~IsMeasSourceWrite(e)

IsSleep(e) == e.op = "sleep"

\* C18: a _measure call with install=True sends exactly two writes besides
\* the source switch, 'MEASure:STATistics:DISPlay ON' and then the command
\* form of the measurement, right after the source check and before the
\* settle sleep and the measurement query; with install=False it sends none.
C18_InstallWrites ==
    (IsMeasureCall /\ pc = "returned") =>
        LET k == IF IsMeasSourceWrite(log[2]) THEN 2 ELSE 1 IN
        IF call.install
        THEN /\ Count(IsExtraWrite) = 2
             /\ Len(log) >= k + 3
             /\ log[k + 1] = Write("MEASure:STATistics:DISPlay ON")
             /\ log[k + 2] = Write(IF call.para = ""
                                   THEN "MEASure:" \o call.mode
                                   ELSE "MEASure:" \o call.mode \o " "
                                        \o call.para)
             /\ \A i \in 1 .. Len(log) :
                   (IsSleep(log[i]) \/ IsMeasurementQuery(log[i])) => i > k + 2
        ELSE Count(IsExtraWrite) = 0

\* An installing call with parameters, a source switch and a settle sleep
C18_Witness ==
    /\ IsMeasureCall /\ pc = "returned" /\ call.install
    /\ call.para /= "" /\ IsMeasSourceWrite(log[2]) /\ Len(log) = 6

----------------------------------------------------------------------------
(* C19 *)

\* A query for a reading, not for a setting
IsReadingQuery(e) ==
    e.op = "query"
    /\ e.cmd \notin {"DVM:ENABle?", "DVM:SOURce?", "MEASure:SOURce?"}

\* C19: a _readDVM or _measure call that returns has slept exactly once, for
\* wait seconds, when wait is a non-zero number, and not at all when wait is
\* 0 or None; every command that is not a reading query comes before the
\* sleep and every reading query after it, so without a sleep the first
\* reading query directly follows the last configuration command.
C19_OneSettleSleep ==
    ((IsDvmCall \/ IsMeasureCall) /\ pc = "returned") =>
        /\ Count(IsSleep) = IF call.wait \in {None, 0} THEN 0 ELSE 1
        /\ \A i \in 1 .. Len(log) :
              /\ IsSleep(log[i]) =>
                    /\ log[i] = Sleep(call.wait)
                    /\ \A j \in 1 .. Len(log) :
                          /\ j < i => ~IsReadingQuery(log[j])
                          /\ j > i => IsReadingQuery(log[j])
              /\ IsReadingQuery(log[i]) =>
                    \A j \in i .. Len(log) : IsReadingQuery(log[j])

\* A DVM call that slept once and then polled twice
C19_Witness ==
    /\ IsDvmCall /\ pc = "returned" /\ call.wait = 1
    /\ Count(IsSleep) = 1 /\ Len(Polls) = 2

----------------------------------------------------------------------------
(* C20 *)

IsAutoscaleCall == call.fn = "setupAutoscale"

\* The entries of a selector that name an analog channel or a digital pod
ValidEntries(sel) == SelectSeq(sel.items, LAMBDA x : x \in AllChannelSet)

\* C20: setupAutoscale never raises.  Given a channel or a list it turns all
\* channels off first, then writes 'VIEW <chan>' for exactly the entries that
\* are in the all-valid list, in their order, and issues autoscale last;
\* given None it issues autoscale and nothing else.
C20_AutoscaleSkipsInvalid ==
    (IsAutoscaleCall /\ ~Idle) =>
        /\ pc = "returned"
        /\ IF call.channel = NoneArg
           THEN log = <<Parent("autoscale")>>
           ELSE LET views == ValidEntries(call.channel) IN
                /\ Len(log) = Len(views) + 2
                /\ log[1] = Parent("outputOffAll")
                /\ \A i \in 1 .. Len(views) :
                      log[i + 1] = Write("VIEW " \o views[i])
                /\ log[Len(log)] = Parent("autoscale")

\* A list with an entry that is not valid between two that are
C20_Witness ==
    /\ IsAutoscaleCall /\ pc = "returned"
    /\ call.channel = List(<<"CHAN2", "1", "POD1">>)
    /\ log[2] = Write("VIEW CHAN2") /\ log[3] = Write("VIEW POD1")

----------------------------------------------------------------------------
(* C15 *)

IsCounterCall == call.fn = "measureCounterFrequency"

\* C15: measureCounterFrequency, asked to install or not, sends neither
\* 'MEASure:STATistics:DISPlay ON' nor the command form 'MEASure:COUNter':
\* its commands are the source query, the source switch if any and one
\* 'MEASure:COUNter?' query.
C15_CounterNeverInstalls ==
    (IsCounterCall /\ pc = "returned") =>
        /\ Count(IsExtraWrite) = 0
        /\ Count(IsMeasurementQuery) = 1
        /\ \A i \in 1 .. Len(log) :
              \/ log[i].op = "query" /\ log[i].cmd = "MEASure:SOURce?"
              \/ IsMeasSourceWrite(log[i])
              \/ IsSleep(log[i])
              \/ log[i].op = "query" /\ log[i].cmd = "MEASure:COUNter?"

\* The caller asked for the measurement to be installed
C15_Witness ==
    /\ IsCounterCall /\ pc = "returned" /\ call.asked
    /\ IsMeasSourceWrite(log[2])

----------------------------------------------------------------------------
(* C14 *)

----------------------------------------------------------------------------
(* C12 *)

IsAnnotationCall == call.fn \in {"annotate", "annotateColor", "annotateOff"}

\* The 'DISPlay:ANN...' commands
LegacyCommandSet ==
    {"DISPlay:ANN ON", "DISPlay:ANN OFF"}
    \cup {"DISPlay:ANN:BACKground " \o b : b \in Backgrounds}
    \cup {"DISPlay:ANN:TEXT \"" \o t \o "\"" : t \in Texts}
    \cup {"DISPlay:ANN:COLor " \o c : c \in ColorArgs \ {NoColor}}

\* The 'DISPlay:BOOKmark1...' commands
BookmarkCommandSet ==
    {"DISPlay:BOOKmark1:XPOSition 0.015", "DISPlay:BOOKmark1:YPOSition 0.06",
     "DISPlay:BOOKmark1:DELete"}
    \cup {"DISPlay:BOOKmark1:SET NONE,\"" \o t \o "\"," \o k \o ",\"" \o t
            \o "\"" :
            t \in Texts \cup {""},
            k \in ColorArgs \cup {_colorNameOldtoNew[c] :
                                    c \in DOMAIN _colorNameOldtoNew}}

\* C12: whatever annotate, annotateColor and annotateOff calls are made, an
\* instrument of version <= 2.60 is sent 'DISPlay:ANN...' commands only and
\* one of version > 2.60 'DISPlay:BOOKmark1...' commands only; annotateOff
\* sends exactly one command, 'DISPlay:ANN OFF' to the former and
\* 'DISPlay:BOOKmark1:DELete' to the latter.
C12_OneProtocolPerVersion ==
    IsAnnotationCall =>
        /\ \A i \in 1 .. Len(log) :
              /\ log[i].op = "write"
              /\ IF _version <= LegacyMaxVersion
                 THEN /\ log[i].cmd \in LegacyCommandSet
                      /\ log[i].cmd \notin BookmarkCommandSet
                 ELSE /\ log[i].cmd \in BookmarkCommandSet
                      /\ log[i].cmd \notin LegacyCommandSet
        /\ call.fn = "annotateOff" =>
              /\ pc = "returned"
              /\ log = IF _version <= LegacyMaxVersion
                       THEN <<Write("DISPlay:ANN OFF")>>
                       ELSE <<Write("DISPlay:BOOKmark1:DELete")>>

\* annotate with a colour on version 2.60 itself: four legacy commands
C12_Witness ==
    /\ call.fn = "annotate" /\ pc = "returned"
    /\ _version = LegacyMaxVersion
    /\ Len(log) = 4 /\ log[4] = Write("DISPlay:ANN ON")

----------------------------------------------------------------------------
(* C13 *)

\* C13: on version > 2.60 an annotate or annotateColor call given a colour
\* of the legacy table returns after one 'DISPlay:BOOKmark1:SET' command,
\* whose colour field is the table's token for that colour, not the name
\* given.
C13_ColorTranslated ==
    ( /\ call.fn \in {"annotate", "annotateColor"}
      /\ _version > LegacyMaxVersion
      /\ call.color \in DOMAIN _colorNameOldtoNew ) =>
        /\ pc = "returned"
        /\ Len(log) = 3
        /\ log[3] = Write("DISPlay:BOOKmark1:SET NONE,\"" \o _annotationText
                          \o "\"," \o _colorNameOldtoNew[call.color] \o ",\""
                          \o _annotationText \o "\"")
        /\ \A i \in 1 .. Len(log) :
              log[i].cmd /= "DISPlay:BOOKmark1:SET NONE,\"" \o _annotationText
                            \o "\"," \o call.color \o ",\""
                            \o _annotationText \o "\""

\* annotateColor('ch1') with text A on the screen
C13_Witness ==
    /\ call.fn = "annotateColor" /\ pc = "returned" /\ call.color = "ch1"
    /\ _version > LegacyMaxVersion
    /\ log[3] = Write("DISPlay:BOOKmark1:SET NONE,\"A\",CHAN1,\"A\"")

----------------------------------------------------------------------------
(* C21 *)

\* The entry points that refuse a channel: through _readDVM, through
\* _measure, and channelLabel
RefusingEntryPoints ==
    DvmEntryPoints \cup MeasureEntryPoints \cup {"channelLabel"}

\* C21: when _readDVM, _measure or channelLabel refuses a scalar channel c it
\* was given, c is the current channel afterwards, so the next call of the
\* same kind, given None, is refused as well, with no instrument command;
\* when the argument is a list the call is refused and the current channel
\* is the one it was before.
C21_RejectedChannelKept ==
    [][ (pc = "idle" /\ call'.fn \in RefusingEntryPoints) =>
          /\ ( /\ pc' = "raised"
               /\ call'.channel /= NoneArg /\ ~call'.channel.isList )
             => /\ channel' = call'.channel
                /\ log' = <<>>
          /\ ( /\ call'.channel = NoneArg
               /\ prev.kind = KindOf(call'.fn)
               /\ ~prev.ok /\ prev.explicit /\ ~prev.list )
             => /\ pc' = "raised"
                /\ log' = <<>>
                /\ channel' = channel
          /\ call'.channel.isList
             => /\ pc' = "raised"
                /\ log' = <<>>
                /\ channel' = channel ]_vars

\* A DVM call, given no channel, refuses the channel past the last one that
\* the refused call before it was given
C21_Witness ==
    /\ IsDvmCall /\ pc = "raised" /\ call.retry
    /\ call.channel = NoneArg /\ log = <<>>
    /\ channel = Scalar(NumStr(MaxChannel + 1))

----------------------------------------------------------------------------
(* C22 *)

\* The timeout is over before the first poll
ElapsedAtFirstCheck ==
    /\ pc = "dvmLoop" /\ Len(Polls) = 0
    /\ call.timeout /= None /\ now - startTime >= call.timeout

\* C22: when the timeout is already over at the first check of the loop, as
\* with timeout=0, _readDVM sends no 'DVM:CURRent?' query and, in a mode
\* other than FREQ, returns the OverRange constant, which no reply carried;
\* the enable query, the source query and the mode write have been sent.
C22_NoPollWhenElapsed ==
    /\ [][ ElapsedAtFirstCheck =>
             /\ Len(Polls') = 0
             /\ (pc' = "returned" /\ call.mode /= "FREQ") =>
                   /\ retval' = OverRange
                   /\ \A i \in 1 .. Len(log') : ~IsReadingQuery(log'[i]) ]_vars
    /\ [](ElapsedAtFirstCheck =>
             /\ Count(IsEnableQuery) = 1
             /\ Count(IsDvmSourceQuery) = 1
             /\ Count(IsModeWrite) = 1)
    /\ []((IsDvmCall /\ pc = "returned" /\ call.timeout = 0) =>
             /\ Len(Polls) = 0
             /\ call.mode /= "FREQ" => retval = OverRange)

\* measureDVMdc with timeout=0 on a disabled DVM: enabled, never polled
C22_Witness ==
    /\ call.fn = "measureDVMdc" /\ pc = "returned" /\ call.timeout = 0
    /\ IsEnableWrite(log[2]) /\ Count(IsModeWrite) = 1
    /\ Len(Polls) = 0 /\ retval = OverRange

----------------------------------------------------------------------------
(* C23 *)

\* An annotate or annotateColor call starts
ShowsAnnotation == pc = "idle" /\ call'.fn \in {"annotate", "annotateColor"}

\* C23: on version > 2.60, with colours of the translation table only, the
\* 'DISPlay:BOOKmark1:SET' command of an annotate or annotateColor call
\* carries the text of the latest annotate call (empty if there was none)
\* and the token of the latest colour given that was not None (of 'ch1' if
\* there was none): the object starts with '' and 'ch1', annotate replaces
\* the text, a colour that is not None replaces the colour, nothing else
\* changes either, and each call sends the two as it leaves them.
C23_BookmarkCarriesLatest ==
    /\ (_annotationText = "" /\ _annotationColor = "ch1")
    /\ [][ ( /\ ShowsAnnotation
             /\ _version > LegacyMaxVersion
             /\ _annotationColor \in DOMAIN _colorNameOldtoNew
             /\ call'.color \in DOMAIN _colorNameOldtoNew \cup {NoColor} )
           => LET text == IF call'.fn = "annotate"
                          THEN call'.text ELSE _annotationText
                  color == IF call'.color /= NoColor
                           THEN call'.color ELSE _annotationColor
              IN  /\ pc' = "returned"
                  /\ Len(log') = 3
                  /\ log'[3] = Write("DISPlay:BOOKmark1:SET NONE,\"" \o text
                                     \o "\"," \o _colorNameOldtoNew[color]
                                     \o ",\"" \o text \o "\"")
                  /\ _annotationText' = text
                  /\ _annotationColor' = color ]_vars
    /\ [][ ~ShowsAnnotation =>
             UNCHANGED <<_annotationText, _annotationColor>> ]_vars

\* annotateColor(None) sends again the text and the colour of earlier calls
C23_Witness ==
    /\ call.fn = "annotateColor" /\ call.color = NoColor
    /\ pc = "returned" /\ _version > LegacyMaxVersion
    /\ log[3] = Write("DISPlay:BOOKmark1:SET NONE,\"B\",FUNC12,\"B\"")

====
